---- MODULE Spec2Model ----
(***************************************************************************)
(* Model of the PDF document processor (src/document_processor.py):        *)
(* DocumentProcessor.extract_pdf_content, process_multiple_pdfs and        *)
(* get_document_summary, with the regular-expression helpers               *)
(* _identify_sections and _extract_references computed on text.            *)
(*                                                                         *)
(* Text is a TLA+ string; a character is a string of length one.  The      *)
(* regular expressions of the source are computed by what Python's re      *)
(* module does with them (leftmost match, greedy and lazy quantifiers,     *)
(* lookahead, IGNORECASE and DOTALL), over the ASCII alphabet.             *)
(***************************************************************************)
EXTENDS Integers, Sequences, FiniteSets, TLC

(***************************************************************************)
(* Characters and character classes                                        *)
(***************************************************************************)
Char(s, i) == IF i >= 1 /\ i <= Len(s) THEN SubSeq(s, i, i) ELSE ""

LowerStr == "abcdefghijklmnopqrstuvwxyz"
UpperStr == "ABCDEFGHIJKLMNOPQRSTUVWXYZ"
DigitStr == "0123456789"

CharsOf(s) == {SubSeq(s, i, i) : i \in 1..Len(s)}

\* \s of the re module (ASCII part)
Space == {" ", "\t", "\n", "\r", "\f"}
\* \d
Digits == CharsOf(DigitStr)
\* [A-Z] under re.IGNORECASE
Letters == CharsOf(LowerStr) \cup CharsOf(UpperStr)
\* [A-Z\s] under re.IGNORECASE
LetterOrSpace == Letters \cup Space
\* [\w\s,]
WordSpaceComma == Letters \cup Digits \cup {"_", ","} \cup Space

\* case folding of re.IGNORECASE, as a table on the lowercase letters
UpperOf == [c \in CharsOf(LowerStr) |->
              SubSeq(UpperStr, CHOOSE i \in 1..26 : SubSeq(LowerStr, i, i) = c,
                               CHOOSE i \in 1..26 : SubSeq(LowerStr, i, i) = c)]
ToUpper(c) == IF c \in DOMAIN UpperOf THEN UpperOf[c] ELSE c

SetMin(S) == CHOOSE x \in S : \A y \in S : x <= y
SetMax(S) == CHOOSE x \in S : \A y \in S : x >= y

\* last index r >= from - 1 such that s[from..r] lies in the class S
SpanEnd(s, from, S) ==
  LET bad == {j \in from..Len(s) : Char(s, j) \notin S}
  IN  IF bad = {} THEN Len(s) ELSE SetMin(bad) - 1

\* str.strip()
Strip(s) ==
  LET keep == {j \in 1..Len(s) : Char(s, j) \notin Space}
  IN  IF keep = {} THEN "" ELSE SubSeq(s, SetMin(keep), SetMax(keep))

\* str(n) for a natural number
RECURSIVE ToStr(_)
ToStr(n) == IF n < 10 THEN Char(DigitStr, n + 1)
            ELSE ToStr(n \div 10) \o Char(DigitStr, (n % 10) + 1)

\* len(s.split()): the number of whitespace-delimited tokens
WordCount(s) ==
  Cardinality({j \in 1..Len(s) :
                 Char(s, j) \notin Space /\ (j = 1 \/ Char(s, j - 1) \in Space)})

(***************************************************************************)
(* Insertion-ordered dict: a sequence of <<key, value>> with distinct keys  *)
(***************************************************************************)
Keys(d) == [i \in 1..Len(d) |-> d[i][1]]
HasKey(d, k) == \E i \in 1..Len(d) : d[i][1] = k
Get(d, k) == d[CHOOSE i \in 1..Len(d) : d[i][1] = k][2]
Put(d, k, v) ==
  IF HasKey(d, k)
  THEN [i \in 1..Len(d) |-> IF d[i][1] = k THEN <<k, v>> ELSE d[i]]
  ELSE Append(d, <<k, v>>)

(***************************************************************************)
(* The heading patterns  KEYWORD\s*\n(.*?)(?=...)                          *)
(***************************************************************************)
\* the keyword, case-insensitively, at position i
KeywordAt(text, i, kw) ==
  /\ i + Len(kw) - 1 <= Len(text)
  /\ \A j \in 1..Len(kw) : ToUpper(Char(text, i + j - 1)) = Char(kw, j)

\* KEYWORD\s*\n matched at i: the position of the newline that ends it, the
\* last one of the whitespace run after the keyword (\s* is greedy and the
\* rest of the pattern, which can always run to \Z, never makes it give one
\* back); 0 when the pattern does not match at i
HeadingEnd(text, i, kw) ==
  IF ~KeywordAt(text, i, kw) THEN 0
  ELSE LET e   == i + Len(kw) - 1
           r   == SpanEnd(text, e + 1, Space)
           nls == {p \in (e + 1)..r : Char(text, p) = "\n"}
       IN  IF nls = {} THEN 0 ELSE SetMax(nls)

\* the leftmost position where KEYWORD\s*\n matches, 0 when there is none
FirstHeading(text, kw) ==
  LET hits == {i \in 1..Len(text) : HeadingEnd(text, i, kw) # 0}
  IN  IF hits = {} THEN 0 ELSE SetMin(hits)

\* (?=\n[A-Z\s]{3,}\n) at q
HeadingLikeAt(text, q) ==
  /\ Char(text, q) = "\n"
  /\ LET r == SpanEnd(text, q + 1, LetterOrSpace)
     IN  \E p \in (q + 4)..r : Char(text, p) = "\n"

\* (?=\n\d+\.) at q
NumberedAt(text, q) ==
  /\ Char(text, q) = "\n"
  /\ LET r == SpanEnd(text, q + 1, Digits)
     IN  r >= q + 1 /\ Char(text, r + 1) = "."

\* the slip of a lookahead that is \Z alone in every pattern
StopAtEndOnly(text, q, toEnd) == q = Len(text) + 1

\* the lookahead that ends the lazy capture (.*?): \Z alone for REFERENCES
StopAt(text, q, toEnd) ==
  \/ q = Len(text) + 1
  \/ ~toEnd /\ (HeadingLikeAt(text, q) \/ NumberedAt(text, q))

\* re.findall(pattern, text, IGNORECASE | DOTALL): <<>> when the pattern does
\* not match, else <<the capture of the first match>>
FirstCapture(text, kw, toEnd) ==
  LET i == FirstHeading(text, kw)
  IN  IF i = 0 THEN <<>>
      ELSE LET s == HeadingEnd(text, i, kw) + 1
               q == SetMin({p \in s..(Len(text) + 1) : StopAt(text, p, toEnd)})
           IN  <<SubSeq(text, s, q - 1)>>

\* (keyword, section name, lookahead is \Z alone)
section_patterns ==
  << <<"ABSTRACT",     "Abstract",     FALSE>>,
     <<"INTRODUCTION", "Introduction", FALSE>>,
     <<"METHODOLOGY",  "Methodology",  FALSE>>,
     <<"METHODS",      "Methods",      FALSE>>,
     <<"RESULTS",      "Results",      FALSE>>,
     <<"DISCUSSION",   "Discussion",   FALSE>>,
     <<"CONCLUSION",   "Conclusion",   FALSE>>,
     <<"CONCLUSIONS",  "Conclusions",  FALSE>>,
     <<"REFERENCES",   "References",   TRUE>> >>

RECURSIVE IdentifyFrom(_, _, _)
IdentifyFrom(text, n, sections) ==
  IF n > Len(section_patterns) THEN sections
  ELSE LET pat     == section_patterns[n]
           matches == FirstCapture(text, pat[1], pat[3])
       IN  IdentifyFrom(text, n + 1,
             IF matches # <<>> THEN Put(sections, pat[2], Strip(matches[1]))
             ELSE sections)

\* DocumentProcessor._identify_sections
identify_sections(text) == IdentifyFrom(text, 1, <<>>)

(***************************************************************************)
(* References                                                              *)
(***************************************************************************)
\* the slip of a marker that is a bracketed number only
RefMarkerAtBracketedNumber(t, j) ==
  /\ Char(t, j) = "["
  /\ LET r == SpanEnd(t, j + 1, Digits)
     IN  r >= j + 1 /\ Char(t, r + 1) = "]"

\* (?=\[\d+\]|\d+\.|\[[\w\s,]+\d{4}\]) at j
RefMarkerAt(t, j) ==
  \/ /\ Char(t, j) = "["
     /\ LET r == SpanEnd(t, j + 1, Digits)
        IN  r >= j + 1 /\ Char(t, r + 1) = "]"
  \/ LET r == SpanEnd(t, j, Digits)
     IN  r >= j /\ Char(t, r + 1) = "."
  \/ /\ Char(t, j) = "["
     /\ LET c == SpanEnd(t, j + 1, WordSpaceComma) + 1
        IN  /\ Char(t, c) = "]"
            /\ c - 5 >= j + 1
            /\ \A k \in (c - 4)..(c - 1) : Char(t, k) \in Digits

\* re.split(r'\n(?=...)', t): the pieces between the newlines that a marker follows
RECURSIVE SplitFrom(_, _, _)
SplitFrom(t, from, cuts) ==
  IF \A c \in cuts : c < from THEN <<SubSeq(t, from, Len(t))>>
  ELSE LET c == SetMin({x \in cuts : x >= from})
       IN  <<SubSeq(t, from, c - 1)>> \o SplitFrom(t, c + 1, cuts)

SplitRefs(t) ==
  SplitFrom(t, 1, {p \in 1..Len(t) : Char(t, p) = "\n" /\ RefMarkerAt(t, p + 1)})

\* the slip of keeping the fragments of 20 characters too
RECURSIVE KeepLongFrom20(_)
KeepLongFrom20(parts) ==
  IF parts = <<>> THEN <<>>
  ELSE (IF Len(Strip(Head(parts))) >= 20 THEN <<Strip(Head(parts))>> ELSE <<>>)
       \o KeepLongFrom20(Tail(parts))

\* [ref.strip() for ref in ref_lines if len(ref.strip()) > 20]
RECURSIVE KeepLong(_)
KeepLong(parts) ==
  IF parts = <<>> THEN <<>>
  ELSE (IF Len(Strip(Head(parts))) > 20 THEN <<Strip(Head(parts))>> ELSE <<>>)
       \o KeepLong(Tail(parts))

\* DocumentProcessor._extract_references
extract_references(text) ==
  LET ref_match == FirstCapture(text, "REFERENCES", TRUE)
  IN  IF ref_match = <<>> THEN <<>>
      ELSE KeepLong(SplitRefs(ref_match[1]))

\* Path(pdf_path).name: the last component of the path
PathName(path) ==
  LET slashes == {i \in 1..Len(path) : Char(path, i) = "/"}
  IN  IF slashes = {} THEN path ELSE SubSeq(path, SetMax(slashes) + 1, Len(path))

(***************************************************************************)
(* Bounds and inputs                                                       *)
(***************************************************************************)
\* the most pages a PDF of the model has
MaxPages == 2
\* the most fitz documents open at once before the runtime reclaims one
MaxOpen == 2

\* the directory process_multiple_pdfs lists, and the paths handed to
\* extract_pdf_content ("a.pdf" and "up/a.pdf" have the same file name)
Directory == "up"
Names == {"a.pdf", "b.pdf"}
Paths == {"a.pdf", "up/a.pdf", "up/b.pdf"}

\* what Path(pdf_directory).glob("*.pdf") can list: the PDF files of the
\* directory
Listings ==
  {<<>>, <<"up/b.pdf">>, <<"up/a.pdf", "up/b.pdf">>}

\* the pages the PDF library can hand out: the text get_text() returns and the
\* tables find_tables() detects, each with the outcome of its extract()
PageKinds ==
  { [text   |-> "INTRODUCTION\nX matters.\nREFERENCES\n[1] A. Author, Title, 2020.\n[2] B. Author, Other, 2019.",
     tables |-> << [ok |-> TRUE,  data |-> << <<"a", "b">>, <<"1", "2">> >>],
                   [ok |-> TRUE,  data |-> << <<"c">> >>] >>],
    [text   |-> "more on Y.\nABSTRACT\nWe study X.\nINTRODUCTION \nand Y too.",
     tables |-> << [ok |-> FALSE, data |-> << <<"bad">> >>],
                   [ok |-> TRUE,  data |-> << <<"d", "e">> >>] >>] }

\* doc.metadata
Metas == { [title |-> "Paper", author |-> "A. Author"] }

\* the slip of numbering the markers from 0
AddPageTextZeroBased(full_text, page_num, page_text) ==
  full_text \o "\n--- Page " \o ToStr(page_num) \o " ---\n" \o page_text

\* full_text += f"\n--- Page {page_num + 1} ---\n{page_text}"
AddPageText(full_text, page_num, page_text) ==
  full_text \o "\n--- Page " \o ToStr(page_num + 1) \o " ---\n" \o page_text

\* the texts extract_pdf_content can accumulate: those of every sequence of at
\* most MaxPages pages
RECURSIVE TextOfPages(_)
TextOfPages(pages) ==
  IF pages = <<>> THEN ""
  ELSE AddPageText(TextOfPages(SubSeq(pages, 1, Len(pages) - 1)),
                   Len(pages) - 1, pages[Len(pages)].text)

PageSeqs == UNION {[1..n -> PageKinds] : n \in 0..MaxPages}

\* _identify_sections and _extract_references on the texts of the model, as
\* tables (computed once)
SectionsOf == [t \in {k.text : k \in PageKinds} |-> identify_sections(t)]
ReferencesOf == [t \in {TextOfPages(ps) : ps \in PageSeqs} |-> extract_references(t)]

(***************************************************************************)
(* State                                                                   *)
(***************************************************************************)
VARIABLES
  processed_docs,  \* self.processed_docs: file name -> content
  open_handles,    \* fitz documents opened and not closed
  pc,              \* control position
  call,            \* the top-level call in progress, <<>> when idle
  frame,           \* locals of the running extract_pdf_content
  batch,           \* locals of the running process_multiple_pdfs
  ret,             \* what the last finished call handed to its caller
  log,             \* logger records since the latest processing call began
  made,            \* file name -> the PDF its cached content was built from
  snap,            \* processed_docs and made when the running call was entered
  src_lines,       \* the lines of the text handed to an extractor called on its own
  src_text,        \* that text
  result,          \* what the extractor returned for it
  tpc,             \* position of the extractor call
  conversation_history,  \* EnterpriseAIAgent.conversation_history
  chat_history,    \* st.session_state.chat_history
  qpc,             \* position of the UI's process_query
  ask,             \* locals of the running process_query / query_documents
  asked,           \* every query/response pair the model answered since the last clear
  ui_docs,         \* st.session_state.processed_docs: file name -> content
  upload           \* the uploaded files process_uploaded_files has still to process

docVars   == <<processed_docs, open_handles, pc, call, frame, batch, ret, log, made, snap>>
textVars  == <<src_lines, src_text, result, tpc>>
agentVars == <<conversation_history, chat_history, qpc, ask, asked>>
uiVars    == <<ui_docs, upload>>
vars == <<docVars, textVars, agentVars, uiVars>>

None == <<>>

\* no extractor is called on its own
TextOff ==
  /\ src_lines = <<>>
  /\ src_text = ""
  /\ result = None
  /\ tpc = "off"

\* no agent has been constructed
AgentOff ==
  /\ conversation_history = <<>>
  /\ chat_history = <<>>
  /\ qpc = "off"
  /\ ask = None
  /\ asked = <<>>

\* st.session_state.processed_docs = {}, no upload being processed
UIOff ==
  /\ ui_docs = <<>>
  /\ upload = None

\* DocumentProcessor(): self.processed_docs = {}
DocsInit ==
  /\ processed_docs = <<>>
  /\ open_handles = 0
  /\ pc = "idle"
  /\ call = None
  /\ frame = None
  /\ batch = None
  /\ ret = None
  /\ log = <<>>
  /\ made = <<>>
  /\ snap = None

Init == DocsInit /\ TextOff /\ AgentOff /\ UIOff

(***************************************************************************)
(* extract_pdf_content                                                     *)
(***************************************************************************)
\* the locals at entry
EnterExtract(pdf_path) ==
  [pdf_path |-> pdf_path, doc |-> None, content |-> None, full_text |-> "",
   structured_sections |-> <<>>, page_num |-> 0, page |-> None,
   read |-> <<>>, error |-> ""]

\* the content dict as created after fitz.open
NewContent(pdf_path, doc) ==
  [filename |-> PathName(pdf_path), total_pages |-> doc.len,
   text_content |-> "", structured_content |-> <<>>, tables |-> <<>>,
   figures |-> <<>>, references |-> <<>>, metadata |-> doc.metadata]

\* the slip of assigning the page's capture instead of appending it
MergeSectionOverwrite(structured_sections, section_title, section_content) ==
  Put(structured_sections, section_title, section_content)

\* the slip of filing every page's capture as an entry of its own
MergeSectionAppend(structured_sections, section_title, section_content) ==
  Append(structured_sections, <<section_title, section_content>>)

\* if section_title not in structured_sections: structured_sections[section_title] = ""
\* structured_sections[section_title] += section_content
MergeSection(structured_sections, section_title, section_content) ==
  LET old == IF HasKey(structured_sections, section_title)
             THEN Get(structured_sections, section_title) ELSE ""
  IN  Put(structured_sections, section_title, old \o section_content)

\* for section_title, section_content in sections.items(): ...
RECURSIVE MergeSections(_, _)
MergeSections(structured_sections, sections) ==
  IF sections = <<>> THEN structured_sections
  ELSE MergeSections(MergeSection(structured_sections,
                                  Head(sections)[1], Head(sections)[2]),
                     Tail(sections))

\* the slip of tagging a table with the 0-based loop index
AppendTableZeroBased(tables, page_num, table_data) ==
  Append(tables, [page |-> page_num, data |-> table_data])

\* content['tables'].append({'page': page_num + 1, 'data': table_data})
AppendTable(tables, page_num, table_data) ==
  Append(tables, [page |-> page_num + 1, data |-> table_data])

\* for table in tables: try: ... except: logger.warning(...)
RECURSIVE ExtractTables(_, _, _)
ExtractTables(tables, page_num, found) ==
  IF found = <<>> THEN tables
  ELSE ExtractTables(IF Head(found).ok
                     THEN AppendTable(tables, page_num, Head(found).data)
                     ELSE tables,
                     page_num, Tail(found))

RECURSIVE TableWarnings(_, _)
TableWarnings(page_num, found) ==
  IF found = <<>> THEN <<>>
  ELSE (IF Head(found).ok THEN <<>>
        ELSE << <<"WARNING", "Could not extract table", ToStr(page_num + 1)>> >>)
       \o TableWarnings(page_num, Tail(found))

\* content as returned: text, sections and references filled in
FinalContent(content, full_text, structured_sections) ==
  [content EXCEPT !.text_content = full_text,
                  !.structured_content = structured_sections,
                  !.references = ReferencesOf[full_text]]

\* the slip of self.processed_docs.setdefault(name, content): an entry
\* already there is kept
StoreDocSetdefault(docs, pdf_path, content) ==
  docs @@ (PathName(pdf_path) :> content)

\* the slip of self.processed_docs = {name: content}: the other entries go
StoreDocReplaceAll(docs, pdf_path, content) ==
  PathName(pdf_path) :> content

\* the slip of merging into an entry already there: its tables are kept and
\* the new ones added to them
StoreDocExtend(docs, pdf_path, content) ==
  LET name == PathName(pdf_path)
  IN  (name :> IF name \in DOMAIN docs
               THEN [content EXCEPT !.tables = docs[name].tables \o @]
               ELSE content) @@ docs

\* self.processed_docs[Path(pdf_path).name] = content
StoreDoc(docs, pdf_path, content) ==
  (PathName(pdf_path) :> content) @@ docs

\* the app calls st.session_state.doc_processor.extract_pdf_content(path)
CallExtract ==
  /\ pc = "idle"
  /\ open_handles < MaxOpen
  /\ \E path \in Paths :
       /\ call' = [op |-> "extract_pdf_content", arg |-> path]
       /\ frame' = EnterExtract(path)
  /\ pc' = "open"
  /\ log' = <<>>
  /\ ret' = None
  /\ snap' = [docs |-> processed_docs, made |-> made]
  /\ UNCHANGED <<processed_docs, open_handles, batch, made>>
  /\ UNCHANGED <<textVars, agentVars, uiVars>>

\* doc = fitz.open(pdf_path); content = {...}; content['metadata'] = doc.metadata
Open ==
  /\ pc = "open"
  /\ \/ /\ frame' = [frame EXCEPT !.error = "open"]
        /\ pc' = "except"
        /\ UNCHANGED open_handles
     \/ \E n \in 0..MaxPages, meta \in Metas :
          LET doc == [len |-> n, metadata |-> meta]
          IN  /\ frame' = [frame EXCEPT !.doc = doc,
                                        !.content = NewContent(frame.pdf_path, doc)]
              /\ open_handles' = open_handles + 1
              /\ pc' = "page"
  /\ UNCHANGED <<processed_docs, call, batch, ret, log, made, snap>>
  /\ UNCHANGED <<textVars, agentVars, uiVars>>

\* page = doc[page_num]; page_text = page.get_text(); full_text += ...;
\* sections = self._identify_sections(page_text); merge
ReadPage ==
  /\ pc = "page"
  /\ frame.page_num < frame.doc.len
  /\ \/ /\ frame' = [frame EXCEPT !.error = "get_text"]
        /\ pc' = "except"
     \/ \E page \in PageKinds :
          /\ frame' = [frame EXCEPT
               !.page = page,
               !.read = Append(@, page),
               !.full_text = AddPageText(@, frame.page_num, page.text),
               !.structured_sections =
                  MergeSections(@, SectionsOf[page.text])]
          /\ pc' = "tables"
  /\ UNCHANGED <<processed_docs, open_handles, call, batch, ret, log, made, snap>>
  /\ UNCHANGED <<textVars, agentVars, uiVars>>

\* tables = page.find_tables(); for table in tables: ...; next page
PageTables ==
  /\ pc = "tables"
  /\ \/ /\ frame' = [frame EXCEPT !.error = "find_tables"]
        /\ pc' = "except"
        /\ UNCHANGED log
     \/ /\ frame' = [frame EXCEPT
             !.content.tables = ExtractTables(@, frame.page_num, frame.page.tables),
             !.page_num = @ + 1]
        /\ log' = log \o TableWarnings(frame.page_num, frame.page.tables)
        /\ pc' = "page"
  /\ UNCHANGED <<processed_docs, open_handles, call, batch, ret, made, snap>>
  /\ UNCHANGED <<textVars, agentVars, uiVars>>

\* after the loop: fill content, doc.close(), cache, log, return content
Finish ==
  /\ pc = "page"
  /\ frame.page_num = frame.doc.len
  /\ LET content == FinalContent(frame.content, frame.full_text,
                                 frame.structured_sections)
     IN  /\ frame' = [frame EXCEPT !.content = content]
         /\ processed_docs' = StoreDoc(processed_docs, frame.pdf_path, content)
         /\ ret' = [kind |-> "return", value |-> content]
         /\ made' = (PathName(frame.pdf_path) :>
                       [metadata |-> frame.doc.metadata, pages |-> frame.read])
                    @@ made
  /\ open_handles' = open_handles - 1
  /\ log' = Append(log, <<"INFO", "Successfully processed", PathName(frame.pdf_path)>>)
  /\ pc' = "done"
  /\ UNCHANGED <<call, batch, snap>>
  /\ UNCHANGED <<textVars, agentVars, uiVars>>

\* the slip of caching in the handler what has been built so far
ExceptCachesPartial ==
  /\ pc = "except"
  /\ log' = Append(log, <<"ERROR", "Error processing PDF", frame.pdf_path>>)
  /\ ret' = [kind |-> "raise", error |-> frame.error]
  /\ processed_docs' = IF frame.content = None THEN processed_docs
                       ELSE (PathName(frame.pdf_path) :> frame.content) @@ processed_docs
  /\ pc' = "done"
  /\ UNCHANGED <<open_handles, call, frame, batch, made, snap>>
  /\ UNCHANGED <<textVars, agentVars, uiVars>>

\* except Exception as e: logger.error(...); raise
Except ==
  /\ pc = "except"
  /\ log' = Append(log, <<"ERROR", "Error processing PDF", frame.pdf_path>>)
  /\ ret' = [kind |-> "raise", error |-> frame.error]
  /\ pc' = "done"
  /\ UNCHANGED <<processed_docs, open_handles, call, frame, batch, made, snap>>
  /\ UNCHANGED <<textVars, agentVars, uiVars>>

(***************************************************************************)
(* process_multiple_pdfs                                                   *)
(***************************************************************************)
\* results = {}; pdf_files = list(Path(pdf_directory).glob("*.pdf"));
\* if not pdf_files: logger.warning(...); return results
CallBatch ==
  /\ pc = "idle"
  /\ \E pdf_files \in Listings :
       /\ batch' = [pdf_directory |-> Directory, pdf_files |-> pdf_files,
                    i |-> 1, results |-> <<>>]
       /\ IF pdf_files = <<>>
          THEN /\ log' = << <<"WARNING", "No PDF files found", Directory>> >>
               /\ ret' = [kind |-> "return", value |-> <<>>]
               /\ pc' = "batch_done"
          ELSE /\ log' = <<>>
               /\ ret' = None
               /\ pc' = "batch_loop"
  /\ call' = [op |-> "process_multiple_pdfs", arg |-> Directory]
  /\ snap' = [docs |-> processed_docs, made |-> made]
  /\ UNCHANGED <<processed_docs, open_handles, frame, made>>
  /\ UNCHANGED <<textVars, agentVars, uiVars>>

\* for pdf_file in pdf_files: content = self.extract_pdf_content(str(pdf_file))
BatchNext ==
  /\ pc = "batch_loop"
  /\ batch.i <= Len(batch.pdf_files)
  /\ open_handles < MaxOpen
  /\ frame' = EnterExtract(batch.pdf_files[batch.i])
  /\ snap' = [docs |-> processed_docs, made |-> made]
  /\ ret' = None
  /\ pc' = "open"
  /\ UNCHANGED <<processed_docs, open_handles, call, batch, log, made>>
  /\ UNCHANGED <<textVars, agentVars, uiVars>>

\* the slip of results[str(pdf_file)] = content: keyed by path
BatchResultsByPath(results, pdf_file, r) ==
  IF r.kind = "return" THEN (pdf_file :> r.value) @@ results
  ELSE results

\* results[pdf_file.name] = content, or except Exception: log and continue
BatchResults(results, pdf_file, r) ==
  IF r.kind = "return" THEN (PathName(pdf_file) :> r.value) @@ results
  ELSE results

BatchResume ==
  /\ pc = "done"
  /\ call.op = "process_multiple_pdfs"
  /\ LET pdf_file == batch.pdf_files[batch.i]
     IN  /\ batch' = [batch EXCEPT !.results = BatchResults(@, pdf_file, ret),
                                   !.i = @ + 1]
         /\ log' = Append(log, IF ret.kind = "return"
                               THEN <<"INFO", "Processed", PathName(pdf_file)>>
                               ELSE <<"ERROR", "Failed to process", PathName(pdf_file)>>)
  /\ frame' = None
  /\ ret' = None
  /\ pc' = "batch_loop"
  /\ UNCHANGED <<processed_docs, open_handles, call, made, snap>>
  /\ UNCHANGED <<textVars, agentVars, uiVars>>

\* return results
BatchEnd ==
  /\ pc = "batch_loop"
  /\ batch.i > Len(batch.pdf_files)
  /\ ret' = [kind |-> "return", value |-> batch.results]
  /\ pc' = "batch_done"
  /\ UNCHANGED <<processed_docs, open_handles, call, frame, batch, log, made, snap>>
  /\ UNCHANGED <<textVars, agentVars, uiVars>>

(***************************************************************************)
(* get_document_summary                                                    *)
(***************************************************************************)
\* the slip of counting the characters of the text, not its words
SummaryCountsChars(doc) ==
  [filename |-> doc.filename, pages |-> doc.total_pages,
   sections |-> Keys(doc.structured_content),
   tables_count |-> Len(doc.tables),
   references_count |-> Len(doc.references),
   word_count |-> Len(doc.text_content)]

\* the summary dict of a cached document
Summary(doc) ==
  [filename |-> doc.filename, pages |-> doc.total_pages,
   sections |-> Keys(doc.structured_content),
   tables_count |-> Len(doc.tables),
   references_count |-> Len(doc.references),
   word_count |-> WordCount(doc.text_content)]

\* the slip of summarising an empty document when the name is not cached
SummaryOfDefault(docs, filename) ==
  IF filename \notin DOMAIN docs
  THEN [filename |-> filename, pages |-> 0, sections |-> <<>>,
        tables_count |-> 0, references_count |-> 0, word_count |-> 0]
  ELSE Summary(docs[filename])

\* if filename not in self.processed_docs: return {}
SummaryOf(docs, filename) ==
  IF filename \notin DOMAIN docs THEN <<>> ELSE Summary(docs[filename])

GetSummary ==
  /\ pc = "idle"
  /\ \E filename \in Names :
       /\ call' = [op |-> "get_document_summary", arg |-> filename]
       /\ ret' = [kind |-> "return", value |-> SummaryOf(processed_docs, filename)]
  /\ snap' = [docs |-> processed_docs, made |-> made]
  /\ pc' = "summary_done"
  /\ UNCHANGED <<processed_docs, open_handles, frame, batch, log, made>>
  /\ UNCHANGED <<textVars, agentVars, uiVars>>

(***************************************************************************)
(* Return to the caller, and the runtime                                   *)
(***************************************************************************)
\* a top-level call has handed its result or its exception to the caller
Returned ==
  \/ pc = "done" /\ call.op = "extract_pdf_content"
  \/ pc = "batch_done"
  \/ pc = "summary_done"

Return ==
  /\ Returned
  /\ pc' = "idle"
  /\ call' = None
  /\ frame' = None
  /\ batch' = None
  /\ ret' = None
  /\ snap' = None
  /\ UNCHANGED <<processed_docs, open_handles, log, made>>
  /\ UNCHANGED <<textVars, agentVars, uiVars>>

\* a fitz document that was never closed is closed when the runtime reclaims
\* it, after the exception that held its frame is gone: at some later time or
\* never
Finalize ==
  /\ pc \in {"idle", "batch_loop"}
  /\ open_handles > 0
  /\ open_handles' = open_handles - 1
  /\ UNCHANGED <<processed_docs, pc, call, frame, batch, ret, log, made, snap>>
  /\ UNCHANGED <<textVars, agentVars, uiVars>>

Next ==
  \/ CallExtract \/ Open \/ ReadPage \/ PageTables \/ Finish \/ Except
  \/ CallBatch \/ BatchNext \/ BatchResume \/ BatchEnd
  \/ GetSummary \/ Return \/ Finalize

Spec == Init /\ [][Next]_vars

(***************************************************************************)
(* The extractors called on a text of their own                            *)
(***************************************************************************)
\* the most lines a text handed to an extractor has
MaxLines == 4

\* the lines joined by line breaks
RECURSIVE JoinLines(_)
JoinLines(ls) ==
  IF ls = <<>> THEN ""
  ELSE IF Len(ls) = 1 THEN ls[1]
  ELSE ls[1] \o "\n" \o JoinLines(Tail(ls))

LineSeqs(tokens) == UNION {[1..n -> tokens] : n \in 0..MaxLines}

\* lines of a reference list: the heading, two entries with a bracketed number,
\* a line without a marker, an entry of 20 characters with a number and a dot,
\* an entry of 21 characters with a bracketed author and year
ReferenceLines ==
  {"REFERENCES", "[1] A. Author, Title, 2020.", "[2] B. Author, Other Title, 2019.",
   "See appendix.", "3. Short entry, 2018", "[Smith 2020] A title."}

\* lines of a page: two headings, two sentences, a line of lowercase words, a
\* numbered line, a sentence that ends in a keyword
SectionLines ==
  {"ABSTRACT", "We study X.", "INTRODUCTION", "X matters because Y.",
   "only lowercase words", "1. first item", "these are the results"}

\* a text of at most MaxLines lines, its last line ended by a line break or not
InitText(tokens) ==
  /\ DocsInit
  /\ AgentOff
  /\ UIOff
  /\ src_lines \in LineSeqs(tokens)
  /\ src_text \in {JoinLines(src_lines), JoinLines(src_lines) \o "\n"}
  /\ result = None
  /\ tpc = "input"

\* references = self._extract_references(text)
ExtractReferences ==
  /\ tpc = "input"
  /\ result' = extract_references(src_text)
  /\ tpc' = "references"
  /\ UNCHANGED <<src_lines, src_text>>
  /\ UNCHANGED <<docVars, agentVars, uiVars>>

\* sections = self._identify_sections(page_text)
IdentifySections ==
  /\ tpc = "input"
  /\ result' = identify_sections(src_text)
  /\ tpc' = "sections"
  /\ UNCHANGED <<src_lines, src_text>>
  /\ UNCHANGED <<docVars, agentVars, uiVars>>

InitReferences == InitText(ReferenceLines)
InitSections   == InitText(SectionLines)

SpecReferences == InitReferences /\ [][ExtractReferences]_vars
SpecSections   == InitSections /\ [][IdentifySections]_vars

(***************************************************************************)
(* The agent's conversation history and the UI's chat history              *)
(***************************************************************************)
\* the most questions asked between two clears
MaxQueries == 11

\* len(self.conversation_history) > 10, self.conversation_history[-10:]
HistoryLimit == 10

\* the query types of the selectbox that the model tells apart
QueryTypes == {"general"}

\* where query_documents can leave its try block
Outcomes == {"ok", "context", "model"}

\* the n-th question since the last clear and the model's answer to it
QueryText(n) == "q" \o ToStr(n)
ResponseText(n) == "a" \o ToStr(n)

\* str(e) of the exception raised in _prepare_document_context or in
\* model.generate_content
ErrorText(outcome) == IF outcome = "context" THEN "bad document" ELSE "quota exceeded"

\* f"I encountered an error while processing your query: {str(e)}"
ErrorMessage(e) == "I encountered an error while processing your query: " \o e

\* the slip of keeping the first ten entries
AddToHistoryKeepOldest(history, query, response) ==
  LET h == Append(history, [query |-> query, response |-> response])
  IN  IF Len(h) > HistoryLimit THEN SubSeq(h, 1, HistoryLimit) ELSE h

\* EnterpriseAIAgent._add_to_history
AddToHistory(history, query, response) ==
  LET h == Append(history, [query |-> query, response |-> response])
  IN  IF Len(h) > HistoryLimit
      THEN SubSeq(h, Len(h) - HistoryLimit + 1, Len(h))
      ELSE h

\* the slip of recording the error message as a response
HistoryAfterAlways(history, query, outcome, response) ==
  AddToHistory(history, query,
               IF outcome = "ok" THEN response ELSE ErrorMessage(ErrorText(outcome)))

\* conversation_history when query_documents returns: line 56 is reached only
\* when nothing before it in the try block raised
HistoryAfter(history, query, outcome, response) ==
  IF outcome = "ok" THEN AddToHistory(history, query, response) ELSE history

\* what query_documents hands back: response.text, or the message of the
\* except clause
QueryResult(outcome, response) ==
  [kind  |-> "return",
   value |-> IF outcome = "ok" THEN response ELSE ErrorMessage(ErrorText(outcome))]

\* initialize_session_state and initialize_agent: an agent with no history
InitAgent ==
  /\ DocsInit
  /\ TextOff
  /\ UIOff
  /\ conversation_history = <<>>
  /\ chat_history = <<>>
  /\ qpc = "idle"
  /\ ask = None
  /\ asked = <<>>

\* process_query calls st.session_state.agent.query_documents(query,
\* processed_docs, query_type), which runs to its return
QueryDocuments ==
  /\ qpc = "idle"
  /\ Len(chat_history) < MaxQueries
  /\ \E query_type \in QueryTypes, outcome \in Outcomes :
       LET query    == QueryText(Len(chat_history) + 1)
           response == ResponseText(Len(chat_history) + 1)
       IN  /\ conversation_history' =
                HistoryAfter(conversation_history, query, outcome, response)
           /\ ask' = [query |-> query, query_type |-> query_type,
                      outcome |-> outcome,
                      ret |-> QueryResult(outcome, response),
                      history_before |-> conversation_history,
                      chat_before |-> chat_history]
           /\ asked' = IF outcome = "ok"
                       THEN Append(asked, [query |-> query, response |-> response])
                       ELSE asked
  /\ qpc' = "returned"
  /\ UNCHANGED chat_history
  /\ UNCHANGED <<docVars, textVars, uiVars>>

\* st.session_state.chat_history.append({'query', 'response', 'type'})
AppendChat ==
  /\ qpc = "returned"
  /\ chat_history' = Append(chat_history,
                            [query |-> ask.query, response |-> ask.ret.value,
                             type |-> ask.query_type])
  /\ qpc' = "shown"
  /\ UNCHANGED <<conversation_history, ask, asked>>
  /\ UNCHANGED <<docVars, textVars, uiVars>>

\* the script run ends
EndRun ==
  /\ qpc = "shown"
  /\ qpc' = "idle"
  /\ ask' = None
  /\ UNCHANGED <<conversation_history, chat_history, asked>>
  /\ UNCHANGED <<docVars, textVars, uiVars>>

\* Clear Chat History: chat_history = []; agent.clear_history()
ClearChat ==
  /\ qpc = "idle"
  /\ chat_history # <<>>
  /\ chat_history' = <<>>
  /\ conversation_history' = <<>>
  /\ asked' = <<>>
  /\ UNCHANGED <<qpc, ask>>
  /\ UNCHANGED <<docVars, textVars, uiVars>>

NextAgent == QueryDocuments \/ AppendChat \/ EndRun \/ ClearChat

SpecAgent == InitAgent /\ [][NextAgent]_vars

(***************************************************************************)
(* The UI's documents and the session processor's cache                    *)
(***************************************************************************)
\* the most files of one upload
MaxFiles == 2

\* the names of the files of one upload, in the uploader's order
Uploads == UNION {[1..n -> Names] : n \in 1..MaxFiles}

\* temp_path = f"temp_uploads/{uploaded_file.name}"
TempPath(name) == "temp_uploads/" \o name

\* the slip of st.session_state.processed_docs[temp_path] = content
StoreUploadedByPath(docs, name, r) ==
  IF r.kind = "return" THEN (TempPath(name) :> r.value) @@ docs ELSE docs

\* st.session_state.processed_docs[uploaded_file.name] = content, skipped when
\* extract_pdf_content raised
StoreUploaded(docs, name, r) ==
  IF r.kind = "return" THEN (name :> r.value) @@ docs ELSE docs

\* the Process Documents button: process_uploaded_files(uploaded_files)
ProcessUploadedFiles ==
  /\ pc = "idle"
  /\ upload = None
  /\ upload' \in Uploads
  /\ UNCHANGED ui_docs
  /\ UNCHANGED <<docVars, textVars, agentVars>>

\* the next file of the loop: it is written to temp_uploads, which can fail
\* and end the run, and handed to the session's extract_pdf_content
UploadNext ==
  /\ pc = "idle"
  /\ upload # None /\ upload # <<>>
  /\ \/ /\ upload' = None
        /\ UNCHANGED docVars
     \/ /\ open_handles < MaxOpen
        /\ call' = [op |-> "extract_pdf_content", arg |-> TempPath(Head(upload))]
        /\ frame' = EnterExtract(TempPath(Head(upload)))
        /\ pc' = "open"
        /\ log' = <<>>
        /\ ret' = None
        /\ snap' = [docs |-> processed_docs, made |-> made]
        /\ UNCHANGED <<processed_docs, open_handles, batch, made, upload>>
  /\ UNCHANGED ui_docs
  /\ UNCHANGED <<textVars, agentVars>>

\* extract_pdf_content has returned or raised: the content is filed under the
\* uploaded name, or the error is shown, and the loop goes on
UploadStore ==
  /\ pc = "done"
  /\ upload # None
  /\ ui_docs' = StoreUploaded(ui_docs, Head(upload), ret)
  /\ upload' = Tail(upload)
  /\ pc' = "idle"
  /\ call' = None
  /\ frame' = None
  /\ ret' = None
  /\ snap' = None
  /\ UNCHANGED <<processed_docs, open_handles, batch, log, made>>
  /\ UNCHANGED <<textVars, agentVars>>

\* after the loop: status_text.text("Processing complete!")
UploadEnd ==
  /\ pc = "idle"
  /\ upload = <<>>
  /\ upload' = None
  /\ UNCHANGED ui_docs
  /\ UNCHANGED <<docVars, textVars, agentVars>>

\* Clear All Documents: processed_docs = {}; doc_processor = DocumentProcessor()
ClearAllDocuments ==
  /\ pc = "idle"
  /\ upload = None
  /\ DOMAIN ui_docs # {}
  /\ ui_docs' = <<>>
  /\ processed_docs' = <<>>
  /\ made' = <<>>
  /\ UNCHANGED upload
  /\ UNCHANGED <<open_handles, pc, call, frame, batch, ret, log, snap>>
  /\ UNCHANGED <<textVars, agentVars>>

\* for doc_name in st.session_state.processed_docs:
\*   summary = st.session_state.doc_processor.get_document_summary(doc_name)
ShowSummary ==
  /\ pc = "idle"
  /\ upload = None
  /\ \E doc_name \in DOMAIN ui_docs :
       /\ call' = [op |-> "get_document_summary", arg |-> doc_name]
       /\ ret' = [kind |-> "return", value |-> SummaryOf(processed_docs, doc_name)]
  /\ snap' = [docs |-> processed_docs, made |-> made]
  /\ pc' = "summary_done"
  /\ UNCHANGED <<processed_docs, open_handles, frame, batch, log, made>>
  /\ UNCHANGED <<textVars, agentVars, uiVars>>

\* st.json(summary): the summary is on the page
EndShow ==
  /\ pc = "summary_done"
  /\ pc' = "idle"
  /\ call' = None
  /\ ret' = None
  /\ snap' = None
  /\ UNCHANGED <<processed_docs, open_handles, frame, batch, log, made>>
  /\ UNCHANGED <<textVars, agentVars, uiVars>>

InitUI ==
  /\ DocsInit
  /\ TextOff
  /\ AgentOff
  /\ UIOff

NextUI ==
  \/ ProcessUploadedFiles \/ UploadNext \/ UploadStore \/ UploadEnd
  \/ Open \/ ReadPage \/ PageTables \/ Finish \/ Except \/ Finalize
  \/ ClearAllDocuments \/ ShowSummary \/ EndShow

SpecUI == InitUI /\ [][NextUI]_vars

(***************************************************************************)
(* Properties                                                              *)
(***************************************************************************)
\* extract_pdf_content has just handed a result or an exception to its caller
ExtractReturned == pc = "done" /\ ret.kind = "return"
ExtractRaised   == pc = "done" /\ ret.kind = "raise"
CurrentName     == PathName(frame.pdf_path)
CurrentInput    == [metadata |-> frame.doc.metadata, pages |-> frame.read]
LogHas(e)       == \E i \in 1..Len(log) : log[i] = e

\* the tables a sequence of pages yields: those whose extract() succeeded, in
\* page order and then detection order, with the 1-based page number
OkTables(page, n) ==
  LET ok == SelectSeq(page.tables, LAMBDA t : t.ok)
  IN  [i \in 1..Len(ok) |-> [page |-> n, data |-> ok[i].data]]

RECURSIVE TablesOfPages(_)
TablesOfPages(pages) ==
  IF pages = <<>> THEN <<>>
  ELSE TablesOfPages(SubSeq(pages, 1, Len(pages) - 1))
       \o OkTables(pages[Len(pages)], Len(pages))

\* the captures of one label over the pages, concatenated in page order
RECURSIVE CapturesOf(_, _)
CapturesOf(label, pages) ==
  IF pages = <<>> THEN ""
  ELSE LET secs == SectionsOf[Head(pages).text]
       IN  (IF HasKey(secs, label) THEN Get(secs, label) ELSE "")
           \o CapturesOf(label, Tail(pages))

\* where a label first occurs: the first page whose extractor result has it,
\* and its position in that result
FirstPage(label, pages) ==
  SetMin({p \in 1..Len(pages) : HasKey(SectionsOf[pages[p].text], label)})
FirstRank(label, pages) ==
  LET secs == SectionsOf[pages[FirstPage(label, pages)].text]
  IN  CHOOSE i \in 1..Len(secs) : secs[i][1] = label
Labels == {section_patterns[i][2] : i \in 1..Len(section_patterns)}

\* C1: after a successful extract_pdf_content the cache entry for the file's
\* name is exactly the document returned, and it is built from this call's
\* input alone: nothing of an earlier entry for the name survives in it.
C1_CacheHoldsReturnedDoc ==
  ExtractReturned =>
    /\ CurrentName \in DOMAIN processed_docs
    /\ processed_docs[CurrentName] = ret.value
    /\ ret.value.filename = CurrentName
    /\ ret.value.total_pages = frame.doc.len
    /\ ret.value.text_content = TextOfPages(frame.read)
    /\ ret.value.tables = TablesOfPages(frame.read)
    /\ ret.value.references = ReferencesOf[TextOfPages(frame.read)]
    /\ ret.value.metadata = frame.doc.metadata
    /\ \A label \in Labels :
         HasKey(ret.value.structured_content, label) =>
           Get(ret.value.structured_content, label) = CapturesOf(label, frame.read)

\* an entry for the same name, built from another PDF, has been overwritten
C1_Witness ==
  /\ ExtractReturned
  /\ CurrentName \in DOMAIN snap.docs
  /\ snap.docs[CurrentName] # ret.value
  /\ snap.docs[CurrentName].tables # <<>>
  /\ snap.docs[CurrentName].structured_content # <<>>

\* C2: when fitz.open or a page read fails (or anything else raises inside
\* extract_pdf_content), the call raises to its caller, hands over no
\* document, and the cache is what it was when the call was entered.
C2_FailureLeavesCacheAlone ==
  /\ pc = "except" => processed_docs = snap.docs
  /\ (pc = "done" /\ frame.error # "") =>
       /\ ret.kind = "raise"
       /\ "value" \notin DOMAIN ret
       /\ processed_docs = snap.docs

\* a read of the second page failed while an entry for the name was cached
C2_Witness ==
  /\ ExtractRaised
  /\ ret.error = "get_text"
  /\ frame.page_num = 1
  /\ frame.content.tables # <<>>
  /\ CurrentName \in DOMAIN processed_docs

\* C3: process_multiple_pdfs returns a mapping whose keys are exactly the
\* names of the files whose extraction succeeded (empty when nothing is listed
\* or everything fails), every listed file is attempted whatever happened to
\* the earlier ones, and each returned entry is the cache entry for its name.
C3_BatchReturnsSucceeded ==
  pc = "batch_done" =>
    /\ ret.kind = "return"
    /\ DOMAIN ret.value =
         {n \in Names : LogHas(<<"INFO", "Successfully processed", n>>)}
    /\ \A i \in 1..Len(batch.pdf_files) :
         \/ LogHas(<<"INFO", "Successfully processed", PathName(batch.pdf_files[i])>>)
         \/ LogHas(<<"ERROR", "Error processing PDF", batch.pdf_files[i]>>)
    /\ \A n \in DOMAIN ret.value :
         n \in DOMAIN processed_docs /\ ret.value[n] = processed_docs[n]

\* the first of two files failed and the second was still processed
C3_Witness ==
  /\ pc = "batch_done"
  /\ Len(batch.pdf_files) = 2
  /\ LogHas(<<"ERROR", "Error processing PDF", batch.pdf_files[1]>>)
  /\ DOMAIN ret.value = {PathName(batch.pdf_files[2])}

\* C4: a cached entry changes only in the step in which extract_pdf_content
\* succeeds for that same file name; every other step of every operation
\* leaves it as it is.
C4_CacheEntryFrame ==
  [][\A f \in DOMAIN processed_docs :
       \/ f \in DOMAIN processed_docs' /\ processed_docs'[f] = processed_docs[f]
       \/ /\ pc = "page" /\ pc' = "done"
          /\ ret'.kind = "return"
          /\ PathName(frame.pdf_path) = f]_vars

\* another name was extracted successfully while an entry was cached
C4_Witness ==
  /\ ExtractReturned
  /\ \E f \in DOMAIN snap.docs : f # CurrentName /\ processed_docs[f] = snap.docs[f]
  /\ ret.value.total_pages > 0

\* C5: a table whose extract() raises is left out of `tables` with nothing put
\* in its place, and the document is still returned and cached; `tables` is
\* the extracted tables in page order, then detection order, with their
\* 1-based page numbers.
C5_FailedTablesOmitted ==
  ExtractReturned =>
    /\ ret.value.tables = TablesOfPages(frame.read)
    /\ processed_docs[CurrentName].tables = TablesOfPages(frame.read)
    /\ Len(frame.read) = frame.doc.len

\* a two-page document with a table that failed on some page
C5_Witness ==
  /\ ExtractReturned
  /\ Len(frame.read) = 2
  /\ \E p \in 1..2 : \E i \in 1..Len(frame.read[p].tables) : ~frame.read[p].tables[i].ok
  /\ LogHas(<<"WARNING", "Could not extract table", "2">>)

\* C6: once the PDF is open and the page texts can be read, no failure of the
\* table handling makes extract_pdf_content fail: a call that raises failed
\* at fitz.open or at get_text().
C6_TableFailureNonFatal ==
  ExtractRaised => ret.error \in {"open", "get_text"}

\* C7: get_document_summary of a file name that is not cached returns the
\* empty mapping and leaves the cache as it was.
C7_SummaryOfMissing ==
  (pc = "summary_done" /\ call.arg \notin DOMAIN snap.docs) =>
    /\ ret = [kind |-> "return", value |-> <<>>]
    /\ processed_docs = snap.docs

\* the name was asked for after its only processing attempt had failed
C7_Witness ==
  /\ pc = "summary_done"
  /\ call.arg \notin DOMAIN processed_docs
  /\ \E path \in Paths :
       PathName(path) = call.arg /\ LogHas(<<"ERROR", "Error processing PDF", path>>)

\* C8: at most one fitz document is open at any time, and none is open when a
\* top-level call has returned.
C8_HandlesClosed ==
  /\ open_handles <= 1
  /\ Returned => open_handles = 0

\* C9: extract_pdf_content on the input the cached entry of that name was
\* built from returns a document equal to that entry, and leaves the cache
\* equal to what it was.
C9_Idempotent ==
  (/\ ExtractReturned
   /\ CurrentName \in DOMAIN snap.made
   /\ snap.made[CurrentName] = CurrentInput) =>
    /\ ret.value = snap.docs[CurrentName]
    /\ processed_docs = snap.docs

\* the same two-page PDF was extracted again
C9_Witness ==
  /\ ExtractReturned
  /\ CurrentName \in DOMAIN snap.made
  /\ snap.made[CurrentName] = CurrentInput
  /\ Len(frame.read) = 2
  /\ ret.value.tables # <<>>

\* C10: each sections[label] is the concatenation, in page order and with no
\* separator, of the extractor's captures for the label; a label is a key
\* exactly when some page matched it; keys are in order of first occurrence.
C10_SectionsMerged ==
  ExtractReturned =>
    LET sc    == ret.value.structured_content
        pages == frame.read
    IN  /\ \A label \in Labels :
             HasKey(sc, label) <=>
               \E p \in 1..Len(pages) : HasKey(SectionsOf[pages[p].text], label)
        /\ \A i \in 1..Len(sc) :
             /\ sc[i][1] \in Labels
             /\ sc[i][2] = CapturesOf(sc[i][1], pages)
        /\ \A i, j \in 1..Len(sc) :
             i < j =>
               LET a == sc[i][1]
                   b == sc[j][1]
               IN  \/ FirstPage(a, pages) < FirstPage(b, pages)
                   \/ /\ FirstPage(a, pages) = FirstPage(b, pages)
                      /\ FirstRank(a, pages) < FirstRank(b, pages)

\* a label matched on both pages, and one first met on the second page comes
\* after those of the first
C10_Witness ==
  /\ ExtractReturned
  /\ Len(frame.read) = 2
  /\ Keys(ret.value.structured_content) = <<"Introduction", "References", "Abstract">>
  /\ Get(ret.value.structured_content, "Introduction") = "X matters.and Y too."
\* the line that opens the block of page k
PageMarker(k) == "\n--- Page " \o ToStr(k) \o " ---\n"

\* the blocks of pages k, k + 1, ... one after the other
RECURSIVE BlocksFrom(_, _)
BlocksFrom(pages, k) ==
  IF k > Len(pages) THEN ""
  ELSE PageMarker(k) \o pages[k].text \o BlocksFrom(pages, k + 1)

\* where "--- Page " occurs in t
MarkersIn(t) == {i \in 1..(Len(t) - 8) : SubSeq(t, i, i + 8) = "--- Page "}

\* C12: for a PDF of N pages total_pages is N and text_content is the blocks
\* of pages 1..N in page order, each block the line "--- Page k ---" (a line
\* break on either side) followed by the raw text of page k: there are exactly
\* N markers
C12_FullTextIsPagesInOrder ==
  ExtractReturned =>
    /\ ret.value.total_pages = frame.doc.len
    /\ Len(frame.read) = frame.doc.len
    /\ ret.value.text_content = BlocksFrom(frame.read, 1)
    /\ Cardinality(MarkersIn(ret.value.text_content)) = frame.doc.len

C12_Witness ==
  /\ ExtractReturned
  /\ frame.doc.len = 2
  /\ frame.read[1] # frame.read[2]
  /\ ret.value.text_content =
       "\n--- Page 1 ---\n" \o frame.read[1].text
       \o "\n--- Page 2 ---\n" \o frame.read[2].text

\* the nine section labels
NineLabels ==
  {"Abstract", "Introduction", "Methodology", "Methods", "Results",
   "Discussion", "Conclusion", "Conclusions", "References"}

\* the keys of d are among the nine labels and no key occurs twice
LabelKeys(d) ==
  /\ \A i \in 1..Len(d) : d[i][1] \in NineLabels
  /\ \A i, j \in 1..Len(d) : d[i][1] = d[j][1] => i = j

\* C13: the keys of structured_content are among the nine labels and no label
\* occurs twice, in the document being built, in every document returned and
\* in every cached document
C13_SectionKeysAreLabels ==
  /\ \A name \in DOMAIN processed_docs :
       LabelKeys(processed_docs[name].structured_content)
  /\ frame # None => LabelKeys(frame.structured_sections)
  /\ ExtractReturned => LabelKeys(ret.value.structured_content)

\* a label found on both pages of a cached document is one key
C13_Witness ==
  /\ ExtractReturned
  /\ Len(frame.read) = 2
  /\ \E l \in NineLabels :
       /\ HasKey(SectionsOf[frame.read[1].text], l)
       /\ HasKey(SectionsOf[frame.read[2].text], l)
       /\ HasKey(processed_docs[CurrentName].structured_content, l)

\* the whitespace-delimited tokens of s[lo..hi]: those of its two halves,
\* less one when a token runs across the middle
RECURSIVE TokensIn(_, _, _)
TokensIn(s, lo, hi) ==
  IF lo > hi THEN 0
  ELSE IF lo = hi THEN (IF Char(s, lo) \in {" ", "\n", "\t"} THEN 0 ELSE 1)
  ELSE LET mid == (lo + hi) \div 2
       IN  TokensIn(s, lo, mid) + TokensIn(s, mid + 1, hi)
           - (IF \/ Char(s, mid) \in {" ", "\n", "\t"}
                 \/ Char(s, mid + 1) \in {" ", "\n", "\t"}
              THEN 0 ELSE 1)

\* C14: get_document_summary of a cached file name returns the projection of
\* the cached document: its filename, pages = total_pages, sections = the keys
\* of structured_content in stored order, the lengths of tables and of
\* references, and word_count = the whitespace-delimited tokens of
\* text_content, page markers included; the cache is left as it was
C14_SummaryIsProjection ==
  pc = "summary_done" /\ call.arg \in DOMAIN snap.docs =>
    LET doc == snap.docs[call.arg]
    IN  /\ ret.kind = "return"
        /\ DOMAIN ret.value = {"filename", "pages", "sections", "tables_count",
                               "references_count", "word_count"}
        /\ ret.value.filename = doc.filename
        /\ ret.value.pages = doc.total_pages
        /\ Len(ret.value.sections) = Len(doc.structured_content)
        /\ \A i \in 1..Len(doc.structured_content) :
             ret.value.sections[i] = doc.structured_content[i][1]
        /\ ret.value.tables_count = Len(doc.tables)
        /\ ret.value.references_count = Len(doc.references)
        /\ ret.value.word_count = TokensIn(doc.text_content, 1, Len(doc.text_content))
        /\ processed_docs = snap.docs

\* the summary of a cached one-page document: the 4 tokens of the marker and
\* the 14 of the page
C14_Witness ==
  /\ pc = "summary_done"
  /\ call.arg \in DOMAIN snap.docs
  /\ ret.value.pages = 1
  /\ ret.value.sections = <<"Introduction", "References">>
  /\ ret.value.tables_count = 2
  /\ ret.value.references_count = 2
  /\ ret.value.word_count = 18

(***************************************************************************)
(* The extractors on their own: properties                                 *)
(***************************************************************************)
\* the lines of ReferenceLines that begin with a reference marker
MarkerLines ==
  {"[1] A. Author, Title, 2020.", "[2] B. Author, Other Title, 2019.",
   "3. Short entry, 2018", "[Smith 2020] A title."}

\* line j is followed by a line break
LineEnded(j) ==
  j < Len(src_lines) \/ src_text = JoinLines(src_lines) \o "\n"

ResultHas(e) == \E i \in 1..Len(result) : result[i] = e

\* C11: every entry of `references` is longer than 20 characters and neither
\* begins nor ends with whitespace; a fragment of 20 characters is left out and
\* one of 21 characters is kept; a list that is only "See appendix.", or a
\* text without the REFERENCES heading, gives no entry
C11_ReferencesLongAndTrimmed ==
  tpc = "references" =>
    /\ \A i \in 1..Len(result) :
         /\ Len(result[i]) > 20
         /\ Char(result[i], 1) \notin Space
         /\ Char(result[i], Len(result[i])) \notin Space
    /\ ~ResultHas("3. Short entry, 2018")
    /\ \A i \in 2..Len(src_lines) :
         /\ src_lines[i] = "[Smith 2020] A title."
         /\ \E h \in 1..(i - 1) : src_lines[h] = "REFERENCES"
         /\ i = Len(src_lines) \/ src_lines[i + 1] \in MarkerLines
         => ResultHas("[Smith 2020] A title.")
    /\ src_lines = <<"REFERENCES", "See appendix.">> => result = <<>>
    /\ (\A i \in 1..Len(src_lines) : src_lines[i] # "REFERENCES") => result = <<>>

C11_Witness ==
  /\ tpc = "references"
  /\ src_lines = <<"REFERENCES", "3. Short entry, 2018", "[Smith 2020] A title.">>
  /\ result = <<"[Smith 2020] A title.">>

\* the fragments of a list of lines: a line that begins with a marker opens a
\* fragment, any other line continues the fragment before it
RECURSIVE GroupLines(_, _)
GroupLines(ls, cur) ==
  IF ls = <<>> THEN <<cur>>
  ELSE IF Head(ls) \in MarkerLines
       THEN <<cur>> \o GroupLines(Tail(ls), Head(ls))
       ELSE GroupLines(Tail(ls), cur \o "\n" \o Head(ls))

FragmentsOf(ls) == IF ls = <<>> THEN <<>> ELSE GroupLines(Tail(ls), Head(ls))

\* the first REFERENCES line, 0 when there is none
FirstReferencesLine ==
  IF \E i \in 1..Len(src_lines) : src_lines[i] = "REFERENCES"
  THEN CHOOSE i \in 1..Len(src_lines) :
         /\ src_lines[i] = "REFERENCES"
         /\ \A h \in 1..(i - 1) : src_lines[h] # "REFERENCES"
  ELSE 0

\* C18: when the text has a REFERENCES heading followed by a line break, the
\* references are, in order, the fragments of the text after the first such
\* heading, cut at exactly the line starts that begin with a bracketed number,
\* a number and a dot or a bracketed author and year, the text before the
\* first marker being a fragment of its own, and only the fragments longer
\* than 20 characters are kept; a text that ends in its first REFERENCES
\* heading and the lines "[1] A. Author, Title, 2020." and
\* "[2] B. Author, Other Title, 2019." gives exactly these two
C18_ReferencesAreMarkerFragments ==
  tpc = "references" =>
    /\ FirstReferencesLine # 0 /\ LineEnded(FirstReferencesLine)
       => result = SelectSeq(FragmentsOf(SubSeq(src_lines, FirstReferencesLine + 1,
                                                Len(src_lines))),
                             LAMBDA f : Len(f) > 20)
    /\ \A n \in 3..Len(src_lines) :
         /\ n = Len(src_lines)
         /\ FirstReferencesLine = n - 2
         /\ src_lines[n - 1] = "[1] A. Author, Title, 2020."
         /\ src_lines[n] = "[2] B. Author, Other Title, 2019."
         => result = <<"[1] A. Author, Title, 2020.",
                       "[2] B. Author, Other Title, 2019.">>

\* a list with a line before its first marker and a continued entry
C18_Witness ==
  /\ tpc = "references"
  /\ src_lines = <<"REFERENCES", "[1] A. Author, Title, 2020.", "See appendix.",
                   "3. Short entry, 2018">>
  /\ result = <<"[1] A. Author, Title, 2020.\nSee appendix.">>

\* the nine heading keywords
NineKeywords ==
  {"ABSTRACT", "INTRODUCTION", "METHODOLOGY", "METHODS", "RESULTS",
   "DISCUSSION", "CONCLUSION", "CONCLUSIONS", "REFERENCES"}

\* the line consists of one of the nine keywords, in either case
IsKeywordLine(l) ==
  \E kw \in NineKeywords :
    /\ Len(l) = Len(kw)
    /\ \A k \in 1..Len(kw) : ToUpper(Char(l, k)) = Char(kw, k)

\* the label of a heading line of SectionLines
LabelOfLine(l) == IF l = "ABSTRACT" THEN "Abstract" ELSE "Introduction"

\* C15: when the first heading line of a label is followed by a body and then
\* by a heading-like line (uppercase letters on a line of its own), the label
\* is mapped to exactly the trimmed text between the two lines, whatever the
\* lines of the body are
C15_SectionIsTextBetween ==
  tpc = "sections" =>
    \A i, j \in 1..Len(src_lines) :
      /\ IsKeywordLine(src_lines[i])
      /\ \A h \in 1..(i - 1) : src_lines[h] # src_lines[i]
      /\ i + 1 < j
      /\ IsKeywordLine(src_lines[j])
      /\ LineEnded(j)
      /\ \A k \in (i + 1)..(j - 1) : ~IsKeywordLine(src_lines[k])
      => /\ HasKey(result, LabelOfLine(src_lines[i]))
         /\ Get(result, LabelOfLine(src_lines[i]))
              = JoinLines(SubSeq(src_lines, i + 1, j - 1))

\* C16: a text in which no line consists of one of the nine keywords gives
\* the empty mapping
C16_NoHeadingNoSection ==
  tpc = "sections" /\ (\A i \in 1..Len(src_lines) : ~IsKeywordLine(src_lines[i]))
    => result = <<>>

ScenarioA == <<"ABSTRACT", "We study X.", "INTRODUCTION", "X matters because Y.">>

\* C17 as stated: the four lines of Scenario A give exactly the one-entry
\* mapping {Abstract: "We study X."}
C17_ScenarioAOnlyAbstract ==
  tpc = "sections" /\ src_lines = ScenarioA
    => result = << <<"Abstract", "We study X.">> >>

\* C17: the four lines of Scenario A give {Abstract: "We study X.",
\* Introduction: "X matters because Y."}, in this order
C17_ScenarioA ==
  tpc = "sections" /\ src_lines = ScenarioA
    => result = << <<"Abstract", "We study X.">>,
                   <<"Introduction", "X matters because Y.">> >>

C17_Witness ==
  /\ tpc = "sections"
  /\ src_text = "ABSTRACT\nWe study X.\nINTRODUCTION\nX matters because Y."
  /\ Len(result) = 2

(***************************************************************************)
(* The histories: properties                                               *)
(***************************************************************************)
\* the last n entries of h, all of h when it has fewer
LastOf(h, n) == IF Len(h) > n THEN SubSeq(h, Len(h) - n + 1, Len(h)) ELSE h

\* C19: conversation_history never holds more than 10 entries, and they are the
\* query/response pairs of the most recent answered queries since the last
\* clear, in the order they were answered: the oldest is dropped when the
\* eleventh is added
C19_HistoryIsLastTen ==
  /\ Len(conversation_history) <= 10
  /\ conversation_history = LastOf(asked, 10)

C19_Witness ==
  /\ Len(asked) = 11
  /\ Len(conversation_history) = 10
  /\ conversation_history[1] = asked[2]
  /\ conversation_history[10] = asked[11]

\* process_query has the string query_documents returned
QueryReturned == qpc \in {"returned", "shown"}

\* C20: query_documents always returns a string; when the preparation of the
\* context or the model call fails the string is the error message and
\* conversation_history is as it was; only an answered query appends one
\* entry, its own; process_query appends whatever string came back, so a
\* failed query adds one entry to chat_history and none to conversation_history
C20_FailedQueryOnlyInChat ==
  QueryReturned =>
    /\ ask.ret.kind = "return"
    /\ ask.outcome # "ok" =>
         /\ conversation_history = ask.history_before
         /\ SubSeq(ask.ret.value, 1, 22) = "I encountered an error"
    /\ ask.outcome = "ok" =>
         /\ conversation_history =
              LastOf(ask.history_before
                       \o <<[query |-> ask.query, response |-> ask.ret.value]>>, 10)
    /\ qpc = "shown" =>
         /\ Len(chat_history) = Len(ask.chat_before) + 1
         /\ SubSeq(chat_history, 1, Len(ask.chat_before)) = ask.chat_before
         /\ chat_history[Len(chat_history)].query = ask.query
         /\ chat_history[Len(chat_history)].response = ask.ret.value

\* a failed query after an answered one: two chat entries, one history entry
C20_Witness ==
  /\ qpc = "shown"
  /\ ask.outcome = "model"
  /\ Len(ask.history_before) = 1
  /\ Len(conversation_history) = 1
  /\ Len(chat_history) = 2
  /\ chat_history[2].response =
       "I encountered an error while processing your query: quota exceeded"

(***************************************************************************)
(* The UI's documents: properties                                          *)
(***************************************************************************)
\* C21: between the steps of the upload runs and the Clear All Documents
\* actions of a session, the UI's processed_docs and the session processor's
\* cache have the same file names and each name has the same document in
\* both, so the summary of a document the UI lists is never the empty mapping
C21_UIDocsAreCache ==
  /\ pc \in {"idle", "summary_done"} =>
       /\ DOMAIN ui_docs = DOMAIN processed_docs
       /\ \A name \in DOMAIN ui_docs : ui_docs[name] = processed_docs[name]
  /\ pc = "summary_done" =>
       /\ call.arg \in DOMAIN ui_docs
       /\ ret.value # <<>>
       /\ ret.value.filename = call.arg

\* a file is listed, and the run that has just ended failed on a file of the
\* same name
C21_Witness ==
  /\ pc = "idle"
  /\ upload = None
  /\ "a.pdf" \in DOMAIN ui_docs
  /\ "a.pdf" \in DOMAIN processed_docs
  /\ LogHas(<<"ERROR", "Error processing PDF", "temp_uploads/a.pdf">>)

====
